---- MODULE Spec2Model ----
(***************************************************************************)
(* Model of the TMDB response cache of NETFLIX-CLONE-SERVER                *)
(* (src/services/tmdb.service.ts) and of the ContentCache table it writes  *)
(* (prisma/migrations/20251006110528_init/migration.sql).                  *)
(*                                                                         *)
(* Time is counted in hours: every cacheDuration of the service is a whole *)
(* number of hours (n * 60 * 60 * 1000 ms), and Date values are compared   *)
(* only with each other.                                                   *)
(*                                                                         *)
(* The store answers every findFirst; the only insert it rejects is one    *)
(* that breaks the unique index.  Upstream either answers with a body or   *)
(* fails.  fetchWithCache is modelled up to the value it returns; the      *)
(* projection getGenres applies to it (response.genres) is left out.       *)
(* Between any two steps of an invocation other handlers may run and time  *)
(* may pass.                                                               *)
(*                                                                         *)
(* The watchlist and favorites controllers (watchlist.controller.ts,       *)
(* favorites controller) are modelled with findOrCreateUser                *)
(* (user.service.ts) over the User, Watchlist and Favorite tables: every   *)
(* await is a step, so two handlers interleave between a query and the     *)
(* write that follows it.  Rows carry the columns the controllers compare; *)
(* the order of a findMany answer is left out.                             *)
(*                                                                         *)
(* The rate limiter is express-rate-limit as app.ts mounts it: a fixed     *)
(* window per client that opens at the client's first request; time is     *)
(* counted in minutes there.                                               *)
(*                                                                         *)
(* requireAuth and optionalAuth (auth middleware) are modelled up to the   *)
(* call of next or the response they send; Clerk verifies the tokens it    *)
(* issued and may reject any token.                                        *)
(***************************************************************************)
EXTENDS Integers, Sequences, FiniteSets, TLC

\* ---------------------------------------------------------------- bounds
MaxTime == 3        \* the clock runs from 0 to MaxTime
MaxCalls == 3       \* service invocations started in one behaviour
MaxId == 2          \* subject ids 1..MaxId
MaxPage == 2        \* pages 1..MaxPage

Procs == {"p1", "p2"}          \* concurrent request handlers
Payloads == {"A", "B"}         \* response bodies upstream may send
Queries == {"q"}               \* free-text search queries
NoData == "none"               \* no payload (undefined)

\* ------------------------------------------------------- types/tmdb.types
TMDBContentType == {"movie", "tv"}
TMDBTimeWindow == {"day", "week"}

\* ------------------------------------------------ durations (unit: hour)
Hours(n) == n
Days(n) == n * 24

\* ------------------------------------------------- service call sites
\* what a cached service method hands to fetchWithCache
FetchArgs(endpoint, cacheKey, cacheDuration) ==
    [endpoint |-> endpoint, cacheKey |-> cacheKey, cacheDuration |-> cacheDuration]

\* variant: the time window is left out of the cache key
getTrending_noWindow(mediaType, timeWindow) ==
    FetchArgs("/trending/" \o mediaType \o "/" \o timeWindow,
              "trending_" \o mediaType,
              Hours(6))

getTrending(mediaType, timeWindow) ==
    FetchArgs("/trending/" \o mediaType \o "/" \o timeWindow,
              "trending_" \o mediaType \o "_" \o timeWindow,
              Hours(6))

getPopular(mediaType, page) ==
    FetchArgs("/" \o mediaType \o "/popular",
              "popular_" \o mediaType \o "_page" \o ToString(page),
              Hours(12))

getTopRated(mediaType, page) ==
    FetchArgs("/" \o mediaType \o "/top_rated",
              "top_rated_" \o mediaType \o "_page" \o ToString(page),
              Hours(12))

getNowPlaying(page) ==
    FetchArgs("/movie/now_playing",
              "now_playing_page" \o ToString(page),
              Hours(3))

\* variant: the duration argument is left out (default: 24 hours)
getUpcoming_default(page) ==
    FetchArgs("/movie/upcoming",
              "upcoming_page" \o ToString(page),
              Hours(24))

getUpcoming(page) ==
    FetchArgs("/movie/upcoming",
              "upcoming_page" \o ToString(page),
              Hours(12))

getMovieDetails(movieId) ==
    FetchArgs("/movie/" \o ToString(movieId),
              "movie_details_" \o ToString(movieId),
              Days(7))

getTVShowDetails(showId) ==
    FetchArgs("/tv/" \o ToString(showId),
              "tv_details_" \o ToString(showId),
              Days(7))

getCredits(mediaType, id) ==
    FetchArgs("/" \o mediaType \o "/" \o ToString(id) \o "/credits",
              mediaType \o "_credits_" \o ToString(id),
              Days(7))

getVideos(mediaType, id) ==
    FetchArgs("/" \o mediaType \o "/" \o ToString(id) \o "/videos",
              mediaType \o "_videos_" \o ToString(id),
              Days(7))

getSimilar(mediaType, id, page) ==
    FetchArgs("/" \o mediaType \o "/" \o ToString(id) \o "/similar",
              mediaType \o "_similar_" \o ToString(id) \o "_page" \o ToString(page),
              Hours(24))

getRecommendations(mediaType, id, page) ==
    FetchArgs("/" \o mediaType \o "/" \o ToString(id) \o "/recommendations",
              mediaType \o "_recommendations_" \o ToString(id) \o "_page" \o ToString(page),
              Hours(24))

getGenres(mediaType) ==
    FetchArgs("/genre/" \o mediaType \o "/list",
              "genres_" \o mediaType,
              Days(30))

\* ------------------------------------------------- logical requests
\* A logical request names a service method and its arguments, defaults
\* (page = 1, timeWindow = "week") already applied; a field the method
\* does not take is "" or 0.
Req(method, mediaType, timeWindow, id, page, query) ==
    [method |-> method, mediaType |-> mediaType, timeWindow |-> timeWindow,
     id |-> id, page |-> page, query |-> query]

Ids == 1..MaxId
Pages == 1..MaxPage

CachedRequests ==
    {Req("getTrending", m, w, 0, 0, "") : m \in TMDBContentType, w \in TMDBTimeWindow}
    \cup {Req(f, m, "", 0, p, "") :
            f \in {"getPopular", "getTopRated"}, m \in TMDBContentType, p \in Pages}
    \cup {Req(f, "movie", "", 0, p, "") : f \in {"getNowPlaying", "getUpcoming"}, p \in Pages}
    \cup {Req("getMovieDetails", "movie", "", i, 0, "") : i \in Ids}
    \cup {Req("getTVShowDetails", "tv", "", i, 0, "") : i \in Ids}
    \cup {Req(f, m, "", i, 0, "") :
            f \in {"getCredits", "getVideos"}, m \in TMDBContentType, i \in Ids}
    \cup {Req(f, m, "", i, p, "") :
            f \in {"getSimilar", "getRecommendations"}, m \in TMDBContentType,
            i \in Ids, p \in Pages}
    \cup {Req("getGenres", m, "", 0, 0, "") : m \in TMDBContentType}

BypassRequests ==
    {Req(f, m, "", 0, p, q) :
        f \in {"search", "discover"}, m \in TMDBContentType, p \in Pages, q \in Queries}

\* the call a cached service method makes for a logical request
ArgsOf(r) ==
    CASE r.method = "getTrending" -> getTrending(r.mediaType, r.timeWindow)
      [] r.method = "getPopular" -> getPopular(r.mediaType, r.page)
      [] r.method = "getTopRated" -> getTopRated(r.mediaType, r.page)
      [] r.method = "getNowPlaying" -> getNowPlaying(r.page)
      [] r.method = "getUpcoming" -> getUpcoming(r.page)
      [] r.method = "getMovieDetails" -> getMovieDetails(r.id)
      [] r.method = "getTVShowDetails" -> getTVShowDetails(r.id)
      [] r.method = "getCredits" -> getCredits(r.mediaType, r.id)
      [] r.method = "getVideos" -> getVideos(r.mediaType, r.id)
      [] r.method = "getSimilar" -> getSimilar(r.mediaType, r.id, r.page)
      [] r.method = "getRecommendations" -> getRecommendations(r.mediaType, r.id, r.page)
      [] r.method = "getGenres" -> getGenres(r.mediaType)

\* the cache key a cached logical request is stored under
CacheKeyOf(r) == ArgsOf(r).cacheKey

KeysOf(W) == {CacheKeyOf(r) : r \in W \cap CachedRequests}

\* ------------------------------------------------- uncached call sites
\* the upstream GET an invocation issues: path and per-call query params
\* (query = "" and page = 0 stand for "parameter not sent")
UpstreamRequest(endpoint, query, page) ==
    [endpoint |-> endpoint, query |-> query, page |-> page]

NoRequest == UpstreamRequest("", "", 0)

search(query, mediaType, page) ==
    UpstreamRequest("/search/" \o mediaType, query, page)

\* filters ({with_genres, year, sort_by, page}) are sent as given
discover(mediaType, filters) ==
    UpstreamRequest("/discover/" \o mediaType, filters.query, filters.page)

\* ------------------------------------------------- state
VARIABLES
    now,        \* wall clock (Date.now()), in hours
    store,      \* rows of table ContentCache
    nextId,     \* next primary key the store generates
    inv,        \* per handler: the service invocation it is running
    workload,   \* logical requests clients send in this behaviour
    ncalls,     \* service invocations started so far
    upCalls,    \* history: upstream GETs issued by fetchWithCache, per cacheKey
    upFails,    \* history: of those, the ones that failed, per cacheKey
    written     \* history: for each row id, the invocation that wrote it

\* the response cache
cacheVars == <<now, store, nextId, inv, workload, ncalls, upCalls, upFails, written>>

VARIABLES
    users,      \* rows of table User
    tables,     \* rows of tables Watchlist and Favorite
    hs,         \* per handler: the list request it is serving
    nextRow,    \* next primary key generated for User / Watchlist / Favorite
    nreqs       \* list requests started so far

\* users and their lists
listVars == <<users, tables, hs, nextRow, nreqs>>

VARIABLES
    minute,     \* wall clock of the rate limiter, in minutes
    hits,       \* generalLimiter: requests counted per client in its window
    resetAt,    \* generalLimiter: end of the client's window
    reached,    \* history: per client, searches handed to a search controller
                \* in the current minute
    answer,     \* per client: status of the last answer (0: none yet)
    nsent       \* requests received so far

\* the rate limiter in front of the routes
limiterVars == <<minute, hits, resetAt, reached, answer, nsent>>

VARIABLES
    mw,         \* per handler: the request its auth middleware is serving
    nauth       \* requests to the auth middleware started so far

\* the auth middleware
authVars == <<mw, nauth>>

vars == <<cacheVars, listVars, limiterVars, authVars>>

\* what the steps of one part leave alone
CacheFrame == UNCHANGED <<listVars, limiterVars, authVars>>
ListFrame == UNCHANGED <<cacheVars, limiterVars, authVars>>
LimiterFrame == UNCHANGED <<cacheVars, listVars, authVars>>
AuthFrame == UNCHANGED <<cacheVars, listVars, limiterVars>>

\* ------------------------------------------------- table ContentCache
Row(id, tmdbId, contentType, endpoint, data, cachedAt, expiresAt) ==
    [id |-> id, tmdbId |-> tmdbId, contentType |-> contentType,
     endpoint |-> endpoint, data |-> data, cachedAt |-> cachedAt,
     expiresAt |-> expiresAt]

\* variant: only the primary key is unique
UniqueViolation_pk(rows, r) == \E e \in rows : e.id = r.id

\* UNIQUE INDEX ContentCache_tmdbId_contentType_endpoint_key
UniqueViolation(rows, r) ==
    \E e \in rows : /\ e.tmdbId = r.tmdbId
                    /\ e.contentType = r.contentType
                    /\ e.endpoint = r.endpoint

\* variant: gte in place of gt
CacheWhere_gte(rows, cacheKey, date) ==
    {e \in rows : e.endpoint = cacheKey /\ e.expiresAt >= date}

\* where: { endpoint: cacheKey, expiresAt: { gt: date } }
CacheWhere(rows, cacheKey, date) ==
    {e \in rows : e.endpoint = cacheKey /\ e.expiresAt > date}

\* ------------------------------------------------- invocations
NoReq == Req("", "", "", 0, 0, "")

Idle ==
    [pc |-> "idle", req |-> NoReq, endpoint |-> "", cacheKey |-> "",
     cacheDuration |-> 0, lookupAt |-> 0, hit |-> {}, upreq |-> NoRequest,
     response |-> NoData, expiresAt |-> 0, issuedAt |-> 0,
     result |-> NoData, outcome |-> "none", error |-> "",
     calls |-> 0, reads |-> 0, writes |-> 0,
     atCall |-> {}, sawFailure |-> FALSE]

\* fetchWithCache is entered: the where clause of findFirst is built
\* (new Date()) and the query is sent
Call(p, r) ==
    /\ inv[p].pc = "idle"
    /\ ncalls < MaxCalls
    /\ r \in workload \cap CachedRequests
    /\ LET a == ArgsOf(r) IN
        inv' = [inv EXCEPT ![p] =
                  [Idle EXCEPT !.pc = "lookup", !.req = r,
                               !.endpoint = a.endpoint,
                               !.cacheKey = a.cacheKey,
                               !.cacheDuration = a.cacheDuration,
                               !.lookupAt = now,
                               !.reads = 1,
                               !.atCall = {e \in store : e.endpoint = a.cacheKey},
                               !.sawFailure = upFails[a.cacheKey] > 0]]
    /\ ncalls' = ncalls + 1
    /\ UNCHANGED <<now, store, nextId, workload, upCalls, upFails, written>>
    /\ CacheFrame

\* findFirst answers null: client.get(endpoint) is issued
Miss(p) ==
    inv' = [inv EXCEPT ![p].pc = "fetch",
                       ![p].upreq = UpstreamRequest(inv[p].endpoint, "", 0),
                       ![p].calls = inv[p].calls + 1]

\* variant: the early return is missing, the row found is ignored
Hit_refetch(p, cached) == Miss(p)

\* findFirst answers with a row: cache hit, cached.data is returned
Hit(p, cached) ==
    inv' = [inv EXCEPT ![p].pc = "done", ![p].hit = {cached},
                       ![p].result = cached.data, ![p].outcome = "ok"]

\* variant: a miss first deletes the expired rows of the key
Lookup_purge(p) ==
    /\ inv[p].pc = "lookup"
    /\ LET found == CacheWhere(store, inv[p].cacheKey, inv[p].lookupAt) IN
        IF found # {}
        THEN /\ \E cached \in found : Hit(p, cached)
             /\ UNCHANGED <<upCalls, store>>
        ELSE /\ Miss(p)
             /\ upCalls' = [upCalls EXCEPT ![inv[p].cacheKey] = @ + 1]
             /\ store' = {e \in store : e.endpoint # inv[p].cacheKey}
    /\ UNCHANGED <<now, nextId, workload, ncalls, upFails, written>>
    /\ CacheFrame

Lookup(p) ==
    /\ inv[p].pc = "lookup"
    /\ LET found == CacheWhere(store, inv[p].cacheKey, inv[p].lookupAt) IN
        IF found # {}
        THEN /\ \E cached \in found : Hit(p, cached)
             /\ UNCHANGED upCalls
        ELSE /\ Miss(p)
             /\ upCalls' = [upCalls EXCEPT ![inv[p].cacheKey] = @ + 1]
    /\ UNCHANGED <<now, store, nextId, workload, ncalls, upFails, written>>
    /\ CacheFrame

\* variant: the expiry is counted from the time of the lookup
UpstreamOk_callTime(p, d) ==
    /\ inv[p].pc = "fetch"
    /\ inv' = [inv EXCEPT ![p].pc = "create", ![p].response = d,
                          ![p].issuedAt = now,
                          ![p].expiresAt = inv[p].lookupAt + inv[p].cacheDuration,
                          ![p].writes = inv[p].writes + 1]
    /\ UNCHANGED <<now, store, nextId, workload, ncalls, upCalls, upFails, written>>
    /\ CacheFrame

\* client.get resolves with body d: contentCache.create is issued with
\* expiresAt = new Date(Date.now() + cacheDuration)
UpstreamOk(p, d) ==
    /\ inv[p].pc = "fetch"
    /\ inv' = [inv EXCEPT ![p].pc = "create", ![p].response = d,
                          ![p].issuedAt = now,
                          ![p].expiresAt = now + inv[p].cacheDuration,
                          ![p].writes = inv[p].writes + 1]
    /\ UNCHANGED <<now, store, nextId, workload, ncalls, upCalls, upFails, written>>
    /\ CacheFrame

\* variant: the catch block falls back to any stored row of the key
Throw_stale(p) ==
    IF \E e \in store : e.endpoint = inv[p].cacheKey
    THEN \E e \in {x \in store : x.endpoint = inv[p].cacheKey} :
            inv' = [inv EXCEPT ![p].pc = "done", ![p].result = e.data,
                               ![p].outcome = "ok"]
    ELSE inv' = [inv EXCEPT ![p].pc = "done", ![p].outcome = "error",
                            ![p].error = "Failed to fetch from TMDB: " \o inv[p].endpoint]

\* catch (error): log, throw new Error(`Failed to fetch from TMDB: ${endpoint}`)
Throw(p) ==
    inv' = [inv EXCEPT ![p].pc = "done", ![p].outcome = "error",
                       ![p].error = "Failed to fetch from TMDB: " \o inv[p].endpoint]

\* variant: the failure is remembered as a row of the key
UpstreamFail_remembered(p) ==
    /\ inv[p].pc = "fetch"
    /\ inv' = [inv EXCEPT ![p].pc = "done", ![p].outcome = "error",
                          ![p].error = "Failed to fetch from TMDB: " \o inv[p].endpoint]
    /\ upFails' = [upFails EXCEPT ![inv[p].cacheKey] = @ + 1]
    /\ store' = store \cup
          {[id |-> nextId, tmdbId |-> 0, contentType |-> "general",
            endpoint |-> inv[p].cacheKey, data |-> NoData, cachedAt |-> now,
            expiresAt |-> now + inv[p].cacheDuration]}
    /\ nextId' = nextId + 1
    /\ UNCHANGED <<now, workload, ncalls, upCalls, written>>
    /\ CacheFrame

\* client.get rejects (network error, non-2xx status, 10 s timeout)
UpstreamFail(p) ==
    /\ inv[p].pc = "fetch"
    /\ Throw(p)
    /\ upFails' = [upFails EXCEPT ![inv[p].cacheKey] = @ + 1]
    /\ UNCHANGED <<now, store, nextId, workload, ncalls, upCalls, written>>
    /\ CacheFrame

\* variant: the row is stored under the upstream path, not the cache key
NewRow_path(p) ==
    [id |-> nextId, tmdbId |-> 0, contentType |-> "general",
     endpoint |-> inv[p].endpoint, data |-> inv[p].response, cachedAt |-> now,
     expiresAt |-> inv[p].expiresAt]

\* the row contentCache.create inserts
NewRow(p) ==
    Row(nextId, 0, "general", inv[p].cacheKey, inv[p].response, now, inv[p].expiresAt)

\* variant: upsert, a row of the same key is replaced
Create_upsert(p) ==
    /\ inv[p].pc = "create"
    /\ store' = {e \in store : e.endpoint # inv[p].cacheKey} \cup {NewRow(p)}
    /\ nextId' = nextId + 1
    /\ written' = written \cup
         {[id |-> nextId, req |-> inv[p].req, data |-> inv[p].response,
           calledAt |-> inv[p].lookupAt, issuedAt |-> inv[p].issuedAt]}
    /\ inv' = [inv EXCEPT ![p].pc = "done",
                          ![p].result = inv[p].response,
                          ![p].outcome = "ok"]
    /\ UNCHANGED <<now, workload, ncalls, upCalls, upFails>>
    /\ CacheFrame

\* the store executes the insert: it is rejected by the unique index
\* (and the rejection is caught), or the row is stored and response.data
\* is returned
Create(p) ==
    /\ inv[p].pc = "create"
    /\ IF UniqueViolation(store, NewRow(p))
       THEN /\ Throw(p)
            /\ UNCHANGED <<store, nextId, written>>
       ELSE /\ store' = store \cup {NewRow(p)}
            /\ nextId' = nextId + 1
            /\ written' = written \cup
                 {[id |-> nextId, req |-> inv[p].req, data |-> inv[p].response,
                   calledAt |-> inv[p].lookupAt, issuedAt |-> inv[p].issuedAt]}
            /\ inv' = [inv EXCEPT ![p].pc = "done",
                                  ![p].result = inv[p].response,
                                  ![p].outcome = "ok"]
    /\ UNCHANGED <<now, workload, ncalls, upCalls, upFails>>
    /\ CacheFrame

\* variant: search / discover go through fetchWithCache
Bypass_cached(p, r) ==
    /\ inv[p].pc = "idle"
    /\ ncalls < MaxCalls
    /\ r \in workload \cap BypassRequests
    /\ inv' = [inv EXCEPT ![p] =
                 [Idle EXCEPT !.pc = "lookup", !.req = r,
                              !.endpoint = "/" \o r.method \o "/" \o r.mediaType,
                              !.cacheKey = r.method \o "_" \o r.mediaType \o "_"
                                             \o r.query \o "_page" \o ToString(r.page),
                              !.cacheDuration = Hours(24),
                              !.lookupAt = now, !.reads = 1]]
    /\ ncalls' = ncalls + 1
    /\ UNCHANGED <<now, store, nextId, workload, upCalls, upFails, written>>
    /\ CacheFrame

\* search / discover are entered: client.get(endpoint, {params}) is issued
Bypass(p, r) ==
    /\ inv[p].pc = "idle"
    /\ ncalls < MaxCalls
    /\ r \in workload \cap BypassRequests
    /\ inv' = [inv EXCEPT ![p] =
                 [Idle EXCEPT !.pc = "bypass", !.req = r,
                              !.upreq = IF r.method = "search"
                                        THEN search(r.query, r.mediaType, r.page)
                                        ELSE discover(r.mediaType, r),
                              !.calls = 1]]
    /\ ncalls' = ncalls + 1
    /\ UNCHANGED <<now, store, nextId, workload, upCalls, upFails, written>>
    /\ CacheFrame

\* client.get resolves: response.data is returned
BypassOk(p, d) ==
    /\ inv[p].pc = "bypass"
    /\ inv' = [inv EXCEPT ![p].pc = "done", ![p].response = d,
                          ![p].result = d, ![p].outcome = "ok"]
    /\ UNCHANGED <<now, store, nextId, workload, ncalls, upCalls, upFails, written>>
    /\ CacheFrame

\* client.get rejects: throw new Error("Search failed" / "Discover failed")
BypassFail(p) ==
    /\ inv[p].pc = "bypass"
    /\ inv' = [inv EXCEPT ![p].pc = "done", ![p].outcome = "error",
                          ![p].error = IF inv[p].req.method = "search"
                                       THEN "Search failed"
                                       ELSE "Discover failed"]
    /\ UNCHANGED <<now, store, nextId, workload, ncalls, upCalls, upFails, written>>
    /\ CacheFrame

\* the controller has consumed the outcome; the handler is free again
Return(p) ==
    /\ inv[p].pc = "done"
    /\ inv' = [inv EXCEPT ![p] = Idle]
    /\ UNCHANGED <<now, store, nextId, workload, ncalls, upCalls, upFails, written>>
    /\ CacheFrame

\* time passes
Tick ==
    /\ now < MaxTime
    /\ now' = now + 1
    /\ UNCHANGED <<store, nextId, inv, workload, ncalls, upCalls, upFails, written>>
    /\ CacheFrame

\* ------------------------------------------------- users and lists
MaxListReqs == 2
MaxRowId == 2

ListProcs == {"h1", "h2"}
Lists == {"watchlist", "favorites"}
ClerkIds == {"u1", "u2"}
NoAuth == ""
RowIds == 1..MaxRowId

\* http-status-codes, and the literal 409 of addToWatchlist
OK == 200
CREATED == 201
BAD_REQUEST == 400
UNAUTHORIZED == 401
FORBIDDEN == 403
NOT_FOUND == 404
CONFLICT == 409
INTERNAL_SERVER_ERROR == 500

\* req.body of an add: the fields the controllers read (0 and "" are absent)
Body(tmdbId, contentType, title) ==
    [tmdbId |-> tmdbId, contentType |-> contentType, title |-> title]

NoBody == Body(0, "", "")
Bodies == {Body(1, "movie", "T"), Body(1, "book", "T"), Body(1, "tv", "")}

\* !tmdbId || !contentType || !title
MissingField(b) == b.tmdbId = 0 \/ b.contentType = "" \/ b.title = ""

\* contentType !== "movie" && contentType !== "tv"
BadContentType(b) == b.contentType # "movie" /\ b.contentType # "tv"

UserRow(id, clerkId, email) == [id |-> id, clerkId |-> clerkId, email |-> email]

\* UNIQUE INDEX User_clerkId_key, User_email_key
UserUniqueViolation(rows, r) ==
    \E u \in rows : u.clerkId = r.clerkId \/ u.email = r.email

\* clerkUser.emailAddresses[0]?.emailAddress || ""
ClerkEmails(c) == {c \o "@mail", ""}

ItemRow(id, userId, tmdbId, contentType, title) ==
    [id |-> id, userId |-> userId, tmdbId |-> tmdbId,
     contentType |-> contentType, title |-> title]

NoItem == ItemRow(0, 0, 0, "", "")

\* variant: only the primary key is unique
ItemUniqueViolation_pk(rows, r) == \E e \in rows : e.id = r.id

\* UNIQUE INDEX Watchlist_userId_tmdbId_contentType_key,
\*              Favorite_userId_tmdbId_contentType_key
ItemUniqueViolation(rows, r) ==
    \E e \in rows : /\ e.userId = r.userId
                    /\ e.tmdbId = r.tmdbId
                    /\ e.contentType = r.contentType

\* findMany({ where: { userId: user.id } })
FindMany(rows, userId) == {e \in rows : e.userId = userId}

\* variant: the ownership check is missing
Forbidden_never(item, userId) == FALSE

\* item.userId !== user.id
Forbidden(item, userId) == item.userId # userId

\* the status removeFromWatchlist / removeFromFavorites answer when
\* findUnique({ where: { id } }) finds nothing
MissingStatus(list) == IF list = "watchlist" THEN NOT_FOUND ELSE UNAUTHORIZED

HIdle ==
    [pc |-> "idle", op |-> "", list |-> "", clerk |-> NoAuth, body |-> NoBody,
     id |-> 0, email |-> "", user |-> 0, found |-> "", item |-> NoItem,
     status |-> 0, data |-> {}]

\* the controller answers: res.status(s).json(...)
Respond(h, s) == hs' = [hs EXCEPT ![h].pc = "done", ![h].status = s]

\* the requests of the list routes: GET /, POST / with a body, DELETE /:id
ListRequests ==
    {[HIdle EXCEPT !.op = "get", !.list = l, !.clerk = c] :
        l \in Lists, c \in ClerkIds \cup {NoAuth}}
    \cup {[HIdle EXCEPT !.op = "add", !.list = l, !.clerk = c, !.body = b] :
        l \in Lists, c \in ClerkIds \cup {NoAuth}, b \in Bodies}
    \cup {[HIdle EXCEPT !.op = "remove", !.list = l, !.clerk = c, !.id = i] :
        l \in Lists, c \in ClerkIds \cup {NoAuth}, i \in RowIds}

\* a list controller is entered: the checks made before the first await
\* (req.auth?.userId, req.body), then findOrCreateUser sends its findUnique
Start(h, r) ==
    /\ hs[h].pc = "idle"
    /\ nreqs < MaxListReqs
    /\ nreqs' = nreqs + 1
    /\ hs' = [hs EXCEPT ![h] =
                 IF r.clerk = NoAuth
                 THEN [r EXCEPT !.pc = "done", !.status = UNAUTHORIZED]
                 ELSE IF r.op = "add" /\ (MissingField(r.body) \/ BadContentType(r.body))
                 THEN [r EXCEPT !.pc = "done", !.status = BAD_REQUEST]
                 ELSE [r EXCEPT !.pc = "user_find"]]
    /\ UNCHANGED <<users, tables, nextRow>>
    /\ ListFrame

\* findOrCreateUser: findUnique({ where: { clerkId } }) answers
UserFind(h) ==
    /\ hs[h].pc = "user_find"
    /\ LET found == {u \in users : u.clerkId = hs[h].clerk} IN
        IF found # {}
        THEN \E u \in found :
                hs' = [hs EXCEPT ![h].pc = "query", ![h].user = u.id]
        ELSE hs' = [hs EXCEPT ![h].pc = "clerk"]
    /\ UNCHANGED <<users, tables, nextRow, nreqs>>
    /\ ListFrame

\* clerkClient.users.getUser resolves: prisma.user.create is sent
ClerkOk(h, email) ==
    /\ hs[h].pc = "clerk"
    /\ email \in ClerkEmails(hs[h].clerk)
    /\ hs' = [hs EXCEPT ![h].pc = "user_create", ![h].email = email]
    /\ UNCHANGED <<users, tables, nextRow, nreqs>>
    /\ ListFrame

\* clerkClient.users.getUser rejects: findOrCreateUser throws, the
\* controller's catch answers 500
ClerkFail(h) ==
    /\ hs[h].pc = "clerk"
    /\ Respond(h, INTERNAL_SERVER_ERROR)
    /\ UNCHANGED <<users, tables, nextRow, nreqs>>
    /\ ListFrame

\* prisma.user.create is executed: rejected by a unique index (the
\* controller's catch answers 500), or the row is stored and returned
UserCreate(h) ==
    /\ hs[h].pc = "user_create"
    /\ LET u == UserRow(nextRow.user, hs[h].clerk, hs[h].email) IN
        IF UserUniqueViolation(users, u)
        THEN /\ Respond(h, INTERNAL_SERVER_ERROR)
             /\ UNCHANGED <<users, nextRow>>
        ELSE /\ users' = users \cup {u}
             /\ nextRow' = [nextRow EXCEPT !.user = @ + 1]
             /\ hs' = [hs EXCEPT ![h].pc = "query", ![h].user = u.id]
    /\ UNCHANGED <<tables, nreqs>>
    /\ ListFrame

\* getWatchlist / getFavorites: findMany answers, the rows are sent
Get(h) ==
    /\ hs[h].pc = "query"
    /\ hs[h].op = "get"
    /\ hs' = [hs EXCEPT ![h].pc = "done", ![h].status = OK,
                        ![h].data = FindMany(tables[hs[h].list], hs[h].user)]
    /\ UNCHANGED <<users, tables, nextRow, nreqs>>
    /\ ListFrame

\* the row addToWatchlist / addToFavorites creates
NewItem(h) ==
    ItemRow(nextRow.item, hs[h].user, hs[h].body.tmdbId,
            hs[h].body.contentType, hs[h].body.title)

\* addToWatchlist / addToFavorites: findUnique({ userId_tmdbId_contentType })
\* answers; existing: 409, else create is sent
FindExisting(h) ==
    /\ hs[h].pc = "query"
    /\ hs[h].op = "add"
    /\ IF ItemUniqueViolation(tables[hs[h].list], NewItem(h))
       THEN hs' = [hs EXCEPT ![h].pc = "done", ![h].status = CONFLICT,
                             ![h].found = "existing"]
       ELSE hs' = [hs EXCEPT ![h].pc = "create", ![h].found = "none"]
    /\ UNCHANGED <<users, tables, nextRow, nreqs>>
    /\ ListFrame

\* create is executed: rejected by the unique index (catch: 500), or the
\* row is stored and 201 is answered
ItemCreate(h) ==
    /\ hs[h].pc = "create"
    /\ IF ItemUniqueViolation(tables[hs[h].list], NewItem(h))
       THEN /\ Respond(h, INTERNAL_SERVER_ERROR)
            /\ UNCHANGED <<tables, nextRow>>
       ELSE /\ tables' = [tables EXCEPT ![hs[h].list] = @ \cup {NewItem(h)}]
            /\ nextRow' = [nextRow EXCEPT !.item = @ + 1]
            /\ hs' = [hs EXCEPT ![h].pc = "done", ![h].status = CREATED,
                                ![h].item = NewItem(h)]
    /\ UNCHANGED <<users, nreqs>>
    /\ ListFrame

\* removeFromWatchlist / removeFromFavorites: findUnique({ id }) answers;
\* no row: 404 / 401, another user's row: 403, else delete is sent
FindItem(h) ==
    /\ hs[h].pc = "query"
    /\ hs[h].op = "remove"
    /\ LET found == {e \in tables[hs[h].list] : e.id = hs[h].id} IN
        IF found = {}
        THEN hs' = [hs EXCEPT ![h].pc = "done", ![h].found = "none",
                              ![h].status = MissingStatus(hs[h].list)]
        ELSE \E item \in found :
                IF Forbidden(item, hs[h].user)
                THEN hs' = [hs EXCEPT ![h].pc = "done", ![h].found = "existing",
                                      ![h].item = item, ![h].status = FORBIDDEN]
                ELSE hs' = [hs EXCEPT ![h].pc = "delete", ![h].found = "existing",
                                      ![h].item = item]
    /\ UNCHANGED <<users, tables, nextRow, nreqs>>
    /\ ListFrame

\* delete({ where: { id } }) is executed: the row is gone meanwhile
\* (catch: 500), or it is deleted and 200 is answered
ItemDelete(h) ==
    /\ hs[h].pc = "delete"
    /\ IF \E e \in tables[hs[h].list] : e.id = hs[h].id
       THEN /\ tables' = [tables EXCEPT ![hs[h].list] =
                             {e \in @ : e.id # hs[h].id}]
            /\ Respond(h, OK)
       ELSE /\ Respond(h, INTERNAL_SERVER_ERROR)
            /\ UNCHANGED tables
    /\ UNCHANGED <<users, nextRow, nreqs>>
    /\ ListFrame

\* the response has been sent; the handler is free again
ListReturn(h) ==
    /\ hs[h].pc = "done"
    /\ hs' = [hs EXCEPT ![h] = HIdle]
    /\ UNCHANGED <<users, tables, nextRow, nreqs>>
    /\ ListFrame

ListInit ==
    /\ users = {}
    /\ tables = [l \in Lists |-> {}]
    /\ hs = [h \in ListProcs |-> HIdle]
    /\ nextRow = [user |-> 1, item |-> 1]
    /\ nreqs = 0

NextLists ==
    \/ \E h \in ListProcs, r \in ListRequests : Start(h, r)
    \/ \E h \in ListProcs : UserFind(h)
    \/ \E h \in ListProcs, email \in UNION {ClerkEmails(c) : c \in ClerkIds} :
            ClerkOk(h, email)
    \/ \E h \in ListProcs : ClerkFail(h)
    \/ \E h \in ListProcs : UserCreate(h)
    \/ \E h \in ListProcs : Get(h)
    \/ \E h \in ListProcs : FindExisting(h)
    \/ \E h \in ListProcs : ItemCreate(h)
    \/ \E h \in ListProcs : FindItem(h)
    \/ \E h \in ListProcs : ItemDelete(h)
    \/ \E h \in ListProcs : ListReturn(h)

\* ------------------------------------------------- rate limiting
MaxMinute == 2
MaxSent == 102

Clients == {"c1"}
Routes == {"/api/movies/search", "/api/tv/search", "/api/movies/popular"}
SearchRoutes == {"/api/movies/search", "/api/tv/search"}

TOO_MANY_REQUESTS == 429

\* rateLimit({ windowMs, max }), windowMs in minutes
Limiter(windowMs, max) == [windowMs |-> windowMs, max |-> max]

generalLimiter == Limiter(15, 100)
searchLimiter == Limiter(1, 30)

\* the limiters a request to the route passes: app.use(generalLimiter);
\* the routers mount optionalAuth and the controller only
RouteLimiters(route) == {generalLimiter}

NoAnswer == [route |-> "", status |-> 0]

\* a request of client c arrives: generalLimiter counts it in the client's
\* window (a new window starts when the old one is over) and answers 429
\* when the count exceeds max; otherwise the request goes on to the route,
\* whose handlers (optionalAuth, controller) let every request through
LimiterRequest(c, route) ==
    /\ nsent < MaxSent
    /\ nsent' = nsent + 1
    /\ LET expired == minute >= resetAt[c]
           total == IF expired THEN 1 ELSE hits[c] + 1
           over == \E l \in RouteLimiters(route) : total > l.max IN
        /\ hits' = [hits EXCEPT ![c] = total]
        /\ resetAt' = [resetAt EXCEPT ![c] =
                         IF expired THEN minute + generalLimiter.windowMs ELSE @]
        /\ IF over
           THEN /\ answer' = [answer EXCEPT ![c] =
                                [route |-> route, status |-> TOO_MANY_REQUESTS]]
                /\ UNCHANGED reached
           ELSE /\ answer' = [answer EXCEPT ![c] =
                                [route |-> route, status |-> OK]]
                /\ reached' = [reached EXCEPT ![c] =
                                 IF route \in SearchRoutes THEN @ + 1 ELSE @]
    /\ UNCHANGED minute
    /\ LimiterFrame

\* a minute passes
LimiterTick ==
    /\ minute < MaxMinute
    /\ minute' = minute + 1
    /\ reached' = [c \in Clients |-> 0]
    /\ UNCHANGED <<hits, resetAt, answer, nsent>>
    /\ LimiterFrame

LimiterInit ==
    /\ minute = 0
    /\ hits = [c \in Clients |-> 0]
    /\ resetAt = [c \in Clients |-> 0]
    /\ reached = [c \in Clients |-> 0]
    /\ answer = [c \in Clients |-> NoAnswer]
    /\ nsent = 0

NextLimiter ==
    \/ LimiterTick
    \/ \E c \in Clients, route \in Routes : LimiterRequest(c, route)

\* ------------------------------------------------- auth middleware
MaxAuthReqs == 2

AuthProcs == {"a1", "a2"}

\* req.headers.authorization, as the parts authHeader.split(" ") yields;
\* <<>> stands for a request without the header
Headers ==
    {<<>>, <<"Bearer">>, <<"Bearer", "">>, <<"Bearer", "t1">>,
     <<"Bearer", "t2">>, <<"Bearer", "bad">>, <<"Basic", "t1">>}

\* authHeader.split(" ")[1]; "" stands for undefined as well
Token(header) == IF Len(header) >= 2 THEN header[2] ELSE ""

\* the tokens Clerk has issued and their subjects (verifiedToken.sub)
ValidTokens == {"t1", "t2"}
Sub(token) == IF token = "t1" THEN "u1" ELSE "u2"

\* req.auth: not set, or { userId, sessionId }
NoAuthInfo == [userId |-> NoAuth, sessionId |-> ""]
AuthInfo(token) == [userId |-> Sub(token), sessionId |-> "s_" \o token]

MIdle ==
    [pc |-> "idle", kind |-> "", header |-> <<>>, token |-> "",
     auth |-> NoAuthInfo, status |-> 0, nexts |-> 0, ran |-> FALSE,
     seen |-> NoAuthInfo, verified |-> FALSE]

\* variant: a header without a token part is let through
requireAuth_open(a, header) ==
    /\ mw[a].pc = "idle"
    /\ nauth < MaxAuthReqs
    /\ nauth' = nauth + 1
    /\ LET r == [MIdle EXCEPT !.kind = "requireAuth", !.header = header] IN
        mw' = [mw EXCEPT ![a] =
                 IF header = <<>>
                 THEN [r EXCEPT !.pc = "done", !.status = UNAUTHORIZED]
                 ELSE IF Token(header) = ""
                 THEN [r EXCEPT !.pc = "next", !.nexts = 1]
                 ELSE [r EXCEPT !.pc = "verify", !.token = Token(header)]]
    /\ AuthFrame

\* requireAuth is entered: no header: 401; no token part: 401; else
\* clerkClient.verifyToken(token) is called
requireAuth(a, header) ==
    /\ mw[a].pc = "idle"
    /\ nauth < MaxAuthReqs
    /\ nauth' = nauth + 1
    /\ LET r == [MIdle EXCEPT !.kind = "requireAuth", !.header = header] IN
        mw' = [mw EXCEPT ![a] =
                 IF header = <<>>
                 THEN [r EXCEPT !.pc = "done", !.status = UNAUTHORIZED]
                 ELSE IF Token(header) = ""
                 THEN [r EXCEPT !.pc = "done", !.status = UNAUTHORIZED]
                 ELSE [r EXCEPT !.pc = "verify", !.token = Token(header)]]
    /\ AuthFrame

\* variant: a request without the header is answered 401
optionalAuth_strict(a, header) ==
    /\ mw[a].pc = "idle"
    /\ nauth < MaxAuthReqs
    /\ nauth' = nauth + 1
    /\ LET r == [MIdle EXCEPT !.kind = "optionalAuth", !.header = header] IN
        mw' = [mw EXCEPT ![a] =
                 IF header = <<>>
                 THEN [r EXCEPT !.pc = "done", !.status = UNAUTHORIZED]
                 ELSE IF Token(header) = ""
                 THEN [r EXCEPT !.pc = "next", !.nexts = 1]
                 ELSE [r EXCEPT !.pc = "verify", !.token = Token(header)]]
    /\ AuthFrame

\* optionalAuth is entered: no header or no token part: next(); else
\* clerkClient.verifyToken(token) is called
optionalAuth(a, header) ==
    /\ mw[a].pc = "idle"
    /\ nauth < MaxAuthReqs
    /\ nauth' = nauth + 1
    /\ LET r == [MIdle EXCEPT !.kind = "optionalAuth", !.header = header] IN
        mw' = [mw EXCEPT ![a] =
                 IF header = <<>> \/ Token(header) = ""
                 THEN [r EXCEPT !.pc = "next", !.nexts = 1]
                 ELSE [r EXCEPT !.pc = "verify", !.token = Token(header)]]
    /\ AuthFrame

\* verifyToken resolves: req.auth is set and next() is called
VerifyOk(a) ==
    /\ mw[a].pc = "verify"
    /\ mw[a].token \in ValidTokens
    /\ mw' = [mw EXCEPT ![a].pc = "next",
                        ![a].auth = AuthInfo(mw[a].token),
                        ![a].verified = TRUE,
                        ![a].nexts = mw[a].nexts + 1]
    /\ UNCHANGED nauth
    /\ AuthFrame

\* verifyToken rejects (unknown, expired or tampered token): requireAuth
\* answers 401; optionalAuth logs and calls next()
VerifyFail(a) ==
    /\ mw[a].pc = "verify"
    /\ IF mw[a].kind = "requireAuth"
       THEN mw' = [mw EXCEPT ![a].pc = "done", ![a].status = UNAUTHORIZED]
       ELSE mw' = [mw EXCEPT ![a].pc = "next", ![a].nexts = mw[a].nexts + 1]
    /\ UNCHANGED nauth
    /\ AuthFrame

\* the handler after the middleware (the controller) runs with req.auth
Downstream(a) ==
    /\ mw[a].pc = "next"
    /\ mw' = [mw EXCEPT ![a].pc = "done", ![a].ran = TRUE,
                        ![a].seen = mw[a].auth]
    /\ UNCHANGED nauth
    /\ AuthFrame

\* the request is over; the handler is free again
AuthReturn(a) ==
    /\ mw[a].pc = "done"
    /\ mw' = [mw EXCEPT ![a] = MIdle]
    /\ UNCHANGED nauth
    /\ AuthFrame

AuthInit ==
    /\ mw = [a \in AuthProcs |-> MIdle]
    /\ nauth = 0

NextAuth ==
    \/ \E a \in AuthProcs, header \in Headers : requireAuth(a, header)
    \/ \E a \in AuthProcs, header \in Headers : optionalAuth(a, header)
    \/ \E a \in AuthProcs : VerifyOk(a)
    \/ \E a \in AuthProcs : VerifyFail(a)
    \/ \E a \in AuthProcs : Downstream(a)
    \/ \E a \in AuthProcs : AuthReturn(a)

\* ------------------------------------------------- specifications
MainWorkload ==
    {Req("getNowPlaying", "movie", "", 0, 1, ""),
     Req("search", "movie", "", 0, 1, "q"),
     Req("discover", "tv", "", 0, 2, "q")}

InitWith(W) ==
    /\ now = 0
    /\ store = {}
    /\ nextId = 1
    /\ inv = [p \in Procs |-> Idle]
    /\ workload = W
    /\ ncalls = 0
    /\ upCalls = [k \in KeysOf(W) |-> 0]
    /\ upFails = [k \in KeysOf(W) |-> 0]
    /\ written = {}
    /\ ListInit
    /\ LimiterInit
    /\ AuthInit

Init == InitWith(MainWorkload)

Next ==
    \/ Tick
    \/ \E p \in Procs, r \in CachedRequests : Call(p, r)
    \/ \E p \in Procs : Lookup(p)
    \/ \E p \in Procs, d \in Payloads : UpstreamOk(p, d)
    \/ \E p \in Procs : UpstreamFail(p)
    \/ \E p \in Procs : Create(p)
    \/ \E p \in Procs, r \in BypassRequests : Bypass(p, r)
    \/ \E p \in Procs, d \in Payloads : BypassOk(p, d)
    \/ \E p \in Procs : BypassFail(p)
    \/ \E p \in Procs : Return(p)

Spec == Init /\ [][Next]_vars

\* one handler serving one cached logical request, invocation after invocation
Handler == "p1"

InitSeq == \E r \in CachedRequests : InitWith({r})

NextSeq ==
    \/ Tick
    \/ \E r \in CachedRequests : Call(Handler, r)
    \/ Lookup(Handler)
    \/ \E d \in Payloads : UpstreamOk(Handler, d)
    \/ UpstreamFail(Handler)
    \/ Create(Handler)
    \/ Return(Handler)

SpecSeq == InitSeq /\ [][NextSeq]_vars

\* two handlers serving requests on the watchlist and favorites routes
SpecLists == Init /\ [][NextLists]_vars

\* one handler serving the list routes, request after request
ListHandler == "h1"

NextListsSeq ==
    \/ \E r \in ListRequests : Start(ListHandler, r)
    \/ UserFind(ListHandler)
    \/ \E email \in UNION {ClerkEmails(c) : c \in ClerkIds} :
            ClerkOk(ListHandler, email)
    \/ ClerkFail(ListHandler)
    \/ UserCreate(ListHandler)
    \/ Get(ListHandler)
    \/ FindExisting(ListHandler)
    \/ ItemCreate(ListHandler)
    \/ FindItem(ListHandler)
    \/ ItemDelete(ListHandler)
    \/ ListReturn(ListHandler)

SpecListsSeq == Init /\ [][NextListsSeq]_vars

\* one client sending requests through the middleware chain
SpecLimiter == Init /\ [][NextLimiter]_vars

\* two handlers passing requests through requireAuth / optionalAuth
SpecAuth == Init /\ [][NextAuth]_vars

\* two handlers entering cached service methods for two logical requests
InitKeys == \E r1, r2 \in CachedRequests : InitWith({r1, r2})

NextKeys ==
    \/ Tick
    \/ \E p \in Procs, r \in CachedRequests : Call(p, r)

SpecKeys == InitKeys /\ [][NextKeys]_vars

\* ------------------------------------------------- properties
\* rows of p's cache key that were stored and unexpired when p was called
FreshAtCall(p) == {e \in inv[p].atCall : e.expiresAt > inv[p].lookupAt}

IsCached(p) == inv[p].req \in CachedRequests

\* C1 (hit correctness): an invocation of fetchWithCache that is made while
\* the store holds an unexpired entry for its cacheKey issues no upstream
\* call and returns the payload of that entry.
HitCorrectness ==
    \A p \in Procs :
        FreshAtCall(p) # {} =>
            /\ inv[p].calls = 0
            /\ inv[p].pc \in {"lookup", "done"}
            /\ inv[p].pc = "done" =>
                 /\ inv[p].outcome = "ok"
                 /\ \E e \in FreshAtCall(p) : inv[p].result = e.data

HitCorrectness_witness ==
    \E p \in Procs :
        /\ inv[p].pc = "done"
        /\ FreshAtCall(p) # {}
        /\ inv[p].result \in Payloads

\* C2 (miss correctness, as claimed): an invocation made while the store
\* holds no unexpired entry for its cacheKey (no entry, or only an expired
\* one) issues exactly one upstream call, and if that call succeeds exactly
\* one new entry for the key is written and the fetched payload is returned.
MissCorrectness ==
    \A p \in Procs :
        (IsCached(p) /\ inv[p].pc = "done" /\ FreshAtCall(p) = {}) =>
            /\ inv[p].calls = 1
            /\ inv[p].response # NoData =>
                 /\ inv[p].outcome = "ok"
                 /\ inv[p].result = inv[p].response
                 /\ \E e \in store \ inv[p].atCall :
                      /\ e.endpoint = inv[p].cacheKey
                      /\ e.data = inv[p].response
                      /\ {x \in store \ inv[p].atCall :
                            x.endpoint = inv[p].cacheKey} = {e}

\* C3 (expiry boundary): the lookup answers with an entry only if the
\* entry's expiresAt is strictly later than the time of the lookup; an
\* entry expiring exactly at that time, or earlier, gives a miss, a later
\* one gives a hit.
ExpiryBoundary ==
    [][\A p \in Procs :
        (inv[p].pc = "lookup" /\ inv'[p].pc # "lookup") =>
            LET valid == {e \in store : /\ e.endpoint = inv[p].cacheKey
                                        /\ e.expiresAt > inv[p].lookupAt}
            IN IF valid = {}
               THEN inv'[p].pc = "fetch" /\ inv'[p].hit = {}
               ELSE /\ inv'[p].pc = "done"
                    /\ inv'[p].hit # {}
                    /\ inv'[p].hit \subseteq valid]_vars

ExpiryBoundary_witness ==
    \E p \in Procs :
        /\ inv[p].pc = "fetch"
        /\ \E e \in store : /\ e.endpoint = inv[p].cacheKey
                            /\ e.expiresAt = inv[p].lookupAt

\* C4 (no stale fallback): a payload returned by fetchWithCache is the
\* payload of an entry that was unexpired at lookup time or the payload
\* fetched from upstream by the same invocation; an invocation whose
\* upstream call failed returns nothing, expired entry or not.
NoStaleFallback ==
    \A p \in Procs :
        IsCached(p) =>
            /\ inv[p].outcome = "ok" =>
                \/ \E e \in inv[p].hit : /\ e.expiresAt > inv[p].lookupAt
                                         /\ inv[p].result = e.data
                \/ /\ inv[p].calls = 1
                   /\ inv[p].response # NoData
                   /\ inv[p].result = inv[p].response
            /\ inv[p].outcome # "ok" => inv[p].result = NoData
            /\ (inv[p].pc = "done" /\ inv[p].calls = 1 /\ inv[p].response = NoData)
                 => inv[p].outcome = "error"

NoStaleFallback_witness ==
    \E p \in Procs :
        /\ inv[p].pc = "done"
        /\ inv[p].outcome = "error"
        /\ inv[p].calls = 1
        /\ inv[p].response = NoData
        /\ inv[p].atCall # {}

\* C5 (failure propagation, no negative caching): when the upstream call
\* of a miss fails, fetchWithCache fails and the store is left as it was;
\* a later invocation for the same key that finds no unexpired entry issues
\* an upstream call again.
FailurePropagation ==
    /\ [][\A p \in Procs :
            (inv[p].pc = "fetch" /\ inv'[p].pc # "fetch" /\ inv'[p].response = NoData)
                => /\ inv'[p].pc = "done"
                   /\ inv'[p].outcome = "error"
                   /\ inv'[p].result = NoData
                   /\ store' = store]_vars
    /\ [](\A p \in Procs :
            (inv[p].sawFailure /\ inv[p].pc \in {"fetch", "create", "done"}
               /\ inv[p].hit = {}) => inv[p].calls = 1)
    /\ [](\A e \in store : e.data \in Payloads)

FailurePropagation_witness ==
    \E p \in Procs :
        /\ inv[p].sawFailure
        /\ inv[p].pc = "fetch"
        /\ inv[p].calls = 1
        /\ store = {}

\* C6 (a cache-population failure is not fatal, as claimed): an invocation
\* whose upstream call succeeded returns the fetched payload, whether or
\* not its store write succeeded.
WriteFailureNonFatal ==
    \A p \in Procs :
        (IsCached(p) /\ inv[p].pc = "done" /\ inv[p].response # NoData) =>
            /\ inv[p].outcome = "ok"
            /\ inv[p].result = inv[p].response

\* C7 (miss-then-hit round trip): with one handler, once a miss on key k
\* has fetched payload P and stored it, every invocation for k made before
\* the entry expires returns P, and up to the expiry the successful fetch
\* is the only upstream call for k that did not fail.
RoundTrip ==
    \A w \in written : \A e \in store :
        e.id = w.id =>
            LET k == CacheKeyOf(w.req) IN
            /\ e.data = w.data
            /\ now < e.expiresAt => upCalls[k] = upFails[k] + 1
            /\ \A p \in Procs :
                 (/\ inv[p].pc = "done"
                  /\ inv[p].cacheKey = k
                  /\ inv[p].lookupAt < e.expiresAt)
                    => /\ inv[p].outcome = "ok"
                       /\ inv[p].result = w.data

RoundTrip_witness ==
    \E w \in written : \E p \in Procs :
        /\ inv[p].pc = "done"
        /\ inv[p].cacheKey = CacheKeyOf(w.req)
        /\ inv[p].hit # {}
        /\ inv[p].result = w.data
        /\ inv[p].lookupAt > w.issuedAt
        /\ upCalls[inv[p].cacheKey] = 1

\* C8 (key determinism): over the cached service methods, two logical
\* requests get the same cacheKey exactly when they are the same request
\* (same method, media kind, subject id, page and time window).
KeyDeterminism ==
    \A p, q \in Procs :
        (inv[p].pc # "idle" /\ inv[q].pc # "idle") =>
            (inv[p].cacheKey = inv[q].cacheKey <=> inv[p].req = inv[q].req)

KeyDeterminism_witness ==
    \E p, q \in Procs :
        /\ inv[p].req = Req("getTrending", "movie", "week", 0, 0, "")
        /\ inv[q].req = Req("getTrending", "movie", "day", 0, 0, "")
        /\ inv[p].cacheKey = "trending_movie_week"
        /\ inv[q].cacheKey = "trending_movie_day"

\* the TTL policy table, in hours
PolicyTTL(method) ==
    CASE method = "getTrending" -> 6
      [] method \in {"getPopular", "getTopRated", "getUpcoming"} -> 12
      [] method = "getNowPlaying" -> 3
      [] method \in {"getMovieDetails", "getTVShowDetails",
                     "getCredits", "getVideos"} -> 7 * 24
      [] method = "getGenres" -> 30 * 24
      [] method \in {"getSimilar", "getRecommendations"} -> 24

\* C9 (TTL policy mapping): every entry written by a service method
\* expires exactly the policy TTL of its endpoint class after the time at
\* which the service issued the write.
TTLPolicyMapping ==
    /\ \A e \in store : \E w \in written : w.id = e.id
    /\ \A w \in written : \A e \in store :
          e.id = w.id => e.expiresAt - w.issuedAt = PolicyTTL(w.req.method)

TTLPolicyMapping_witness ==
    \E w \in written : \E e \in store :
        /\ e.id = w.id
        /\ w.req.method = "getGenres"
        /\ w.issuedAt > 0
        /\ e.expiresAt = w.issuedAt + 720

\* C10 (cache bypass): an invocation of search or discover issues exactly
\* one upstream call and performs no store lookup and no store write,
\* whatever was asked before.
CacheBypass ==
    /\ \A p \in Procs :
          inv[p].req \in BypassRequests =>
              /\ inv[p].calls = 1
              /\ inv[p].reads = 0
              /\ inv[p].writes = 0
              /\ inv[p].hit = {}
              /\ inv[p].pc \in {"bypass", "done"}
    /\ \A w \in written : w.req \in CachedRequests

CacheBypass_witness ==
    \E p, q \in Procs :
        /\ p # q
        /\ inv[p].req \in BypassRequests
        /\ inv[q].req = inv[p].req
        /\ inv[p].pc = "done"
        /\ inv[q].pc = "done"
        /\ inv[q].calls = 1
        /\ ncalls = MaxCalls

\* C11 (uniqueness): in every reachable state the store holds at most one
\* entry, expired or not, per cacheKey.
UniquePerKey ==
    \A e1, e2 \in store : e1.endpoint = e2.endpoint => e1 = e2

UniquePerKey_witness ==
    \E p \in Procs : \E e \in store :
        /\ inv[p].pc = "done"
        /\ inv[p].writes = 1
        /\ inv[p].outcome = "error"
        /\ e.endpoint = inv[p].cacheKey
        /\ e.expiresAt <= now

\* C12 (expiration value, as claimed): every entry written on a miss
\* expires ttlMillis after the time at which fetchWithCache was called,
\* also when time passes between the lookup and the store write.
ExpirationFromCallTime ==
    \A w \in written : \A e \in store :
        e.id = w.id => e.expiresAt = w.calledAt + ArgsOf(w.req).cacheDuration

\* C12 (amended): every entry written on a miss expires ttlMillis after
\* the time at which the upstream response arrived and the write was
\* issued, which is never before the call; every entry has an expiresAt.
ExpirationFromWriteTime ==
    \A e \in store :
        /\ e.expiresAt \in Nat
        /\ \E w \in written :
            /\ w.id = e.id
            /\ w.calledAt <= w.issuedAt
            /\ e.expiresAt = w.issuedAt + ArgsOf(w.req).cacheDuration

ExpirationFromWriteTime_witness ==
    \E w \in written : \E e \in store :
        /\ e.id = w.id
        /\ w.calledAt < w.issuedAt
        /\ e.expiresAt = w.issuedAt + ArgsOf(w.req).cacheDuration

\* C17 (refresh after expiry, as claimed): an invocation made when the
\* only entry of its key has expired, and whose upstream call succeeds,
\* returns the fresh payload and leaves an unexpired entry holding it.
RefreshAfterExpiry ==
    \A p \in Procs :
        (/\ IsCached(p)
         /\ inv[p].pc = "done"
         /\ inv[p].atCall # {}
         /\ FreshAtCall(p) = {}
         /\ inv[p].response # NoData)
            => /\ inv[p].outcome = "ok"
               /\ inv[p].result = inv[p].response
               /\ \E e \in store : /\ e.endpoint = inv[p].cacheKey
                                   /\ e.data = inv[p].response
                                   /\ e.expiresAt > inv[p].lookupAt

\* C18 (concurrent misses are independent, as claimed): when two
\* invocations for the same key both observe a miss and both upstream
\* calls succeed, neither store write fails and both return their payload.
ConcurrentMissesIndependent ==
    \A p, q \in Procs :
        (/\ p # q
         /\ IsCached(p) /\ IsCached(q)
         /\ inv[p].cacheKey = inv[q].cacheKey
         /\ inv[p].pc = "done" /\ inv[q].pc = "done"
         /\ inv[p].hit = {} /\ inv[q].hit = {}
         /\ inv[p].atCall = {} /\ inv[q].atCall = {}
         /\ inv[p].response # NoData /\ inv[q].response # NoData)
            => /\ inv[p].outcome = "ok" /\ inv[p].result = inv[p].response
               /\ inv[q].outcome = "ok" /\ inv[q].result = inv[q].response

\* C19 (insert-only store): no step deletes an entry or changes the
\* payload or expiresAt of a stored entry; an entry, expired or not, is in
\* the store unchanged in every later state.
InsertOnly ==
    [][\A e \in store : e \in store']_vars

InsertOnly_witness ==
    \E e \in store : \E p \in Procs :
        /\ e.expiresAt <= now
        /\ e \in inv[p].atCall
        /\ inv[p].pc = "done"
        /\ inv[p].writes = 1

\* C20 (write frame): a hit and a miss whose upstream call failed leave
\* the store as it was and issue no store write; a miss whose upstream
\* call succeeded issues exactly one, and the store changes only when that
\* write is executed, by one row.
WriteFrame ==
    /\ [](\A p \in Procs :
            IsCached(p) =>
               /\ inv[p].hit # {} => inv[p].writes = 0
               /\ (inv[p].pc = "done" /\ inv[p].response = NoData) => inv[p].writes = 0
               /\ (inv[p].pc \in {"create", "done"} /\ inv[p].response # NoData)
                     => inv[p].writes = 1)
    /\ [][store' # store =>
            /\ store \subseteq store'
            /\ Cardinality(store' \ store) = 1
            /\ \E p \in Procs :
                 /\ inv[p].pc = "create"
                 /\ inv'[p].pc = "done"
                 /\ inv[p].response # NoData
                 /\ inv[p].hit = {}]_vars

WriteFrame_witness ==
    \E p, q \in Procs :
        /\ inv[p].pc = "done" /\ inv[p].hit # {} /\ inv[p].writes = 0
        /\ inv[q].pc = "done" /\ inv[q].response = NoData /\ inv[q].calls = 1
        /\ inv[q].writes = 0
        /\ Cardinality(store) = 1

\* the user row a list row belongs to (Watchlist_userId_fkey,
\* Favorite_userId_fkey)
OwnerClerk(e) == {u.clerkId : u \in {x \in users : x.id = e.userId}}

\* C13 (duplicate add): two adds of the same item by the same user that
\* both passed the existence check are answered 201 and 409.
DuplicateAddConflict ==
    \A h1, h2 \in ListProcs :
        (/\ h1 # h2
         /\ hs[h1].pc = "done" /\ hs[h2].pc = "done"
         /\ hs[h1].op = "add" /\ hs[h2].op = "add"
         /\ hs[h1].list = "watchlist" /\ hs[h2].list = "watchlist"
         /\ hs[h1].clerk = hs[h2].clerk
         /\ hs[h1].body = hs[h2].body
         /\ hs[h1].found = "none" /\ hs[h2].found = "none")
        => {hs[h1].status, hs[h2].status} = {CREATED, CONFLICT}

\* C14 (favorites removal mirrors watchlist removal): a remove whose id
\* matches no row of its list is answered 404, on either list, and the
\* answer changes no table.
MissingRemoveNotFound ==
    /\ [](\A h \in ListProcs :
            (hs[h].pc = "done" /\ hs[h].op = "remove" /\ hs[h].found = "none")
                => hs[h].status = NOT_FOUND)
    /\ [][\A h \in ListProcs :
            (hs[h].op = "remove" /\ hs[h].pc = "query" /\ hs'[h].found = "none")
                => tables' = tables]_vars

\* C16 (per-user isolation): a get answers only rows owned by the
\* requester; a row leaves a table only by a remove of its owner; a remove
\* that found another user's row is answered 403, and that answer changes
\* no table.
PerUserIsolation ==
    /\ [](\A h \in ListProcs :
            /\ (hs[h].pc = "done" /\ hs[h].op = "get" /\ hs[h].status = OK)
                  => \A e \in hs[h].data : OwnerClerk(e) = {hs[h].clerk}
            /\ (/\ hs[h].pc \in {"delete", "done"}
                /\ hs[h].op = "remove"
                /\ hs[h].found = "existing"
                /\ OwnerClerk(hs[h].item) # {hs[h].clerk})
                  => hs[h].pc = "done" /\ hs[h].status = FORBIDDEN)
    /\ [][\A l \in Lists : \A e \in tables[l] \ tables'[l] :
            \E h \in ListProcs :
                /\ hs[h].pc = "delete" /\ hs'[h].pc = "done"
                /\ hs[h].list = l /\ hs[h].id = e.id
                /\ OwnerClerk(e) = {hs[h].clerk}]_vars
    /\ [][\A h \in ListProcs :
            (hs[h].pc = "query" /\ hs'[h].status = FORBIDDEN)
                => tables' = tables]_vars

PerUserIsolation_witness ==
    \E h \in ListProcs :
        /\ hs[h].pc = "done" /\ hs[h].op = "remove"
        /\ hs[h].status = FORBIDDEN
        /\ hs[h].item \in tables[hs[h].list]
        /\ OwnerClerk(hs[h].item) # {hs[h].clerk}
        /\ \E u \in users : u.clerkId = hs[h].clerk

\* C15 (search rate limit): no client has more than 30 searches handed to
\* a search controller within one minute.
SearchRateLimit ==
    \A c \in Clients : reached[c] <= searchLimiter.max

\* the cached methods that take a page
PaginatedMethods ==
    {"getPopular", "getTopRated", "getNowPlaying", "getUpcoming",
     "getSimilar", "getRecommendations"}

\* the page upstream answers: the one the request names, the first one
\* when it names none
UpstreamPage(u) == IF u.page = 0 THEN 1 ELSE u.page

\* C21 (page fidelity): the upstream request a paginated cached method
\* issues on a miss for page p asks upstream for page p.
PageFidelity ==
    \A p \in Procs :
        (/\ IsCached(p)
         /\ inv[p].req.method \in PaginatedMethods
         /\ inv[p].calls = 1)
        => UpstreamPage(inv[p].upreq) = inv[p].req.page

\* the invocation failed because client.get rejected
UpstreamFailed(p) ==
    /\ inv[p].pc = "done" /\ inv[p].outcome = "error"
    /\ inv[p].calls = 1 /\ inv[p].response = NoData

\* the invocation failed because the store rejected the write
StoreFailed(p) ==
    /\ inv[p].pc = "done" /\ inv[p].outcome = "error"
    /\ inv[p].writes = 1 /\ inv[p].response # NoData

\* C22 (error taxonomy): the error of an invocation whose upstream call
\* failed differs from the error of an invocation whose store write failed,
\* so the caller can tell the two apart.
ErrorTaxonomy ==
    \A p, q \in Procs :
        (IsCached(p) /\ IsCached(q) /\ UpstreamFailed(p) /\ StoreFailed(q))
            => inv[p].error # inv[q].error

\* C23 (subject fields): an entry written for an endpoint of subject n of
\* kind movie / tv has tmdbId n and contentType that kind.
SubjectFields ==
    \A w \in written : \A e \in store :
        (e.id = w.id /\ w.req.id # 0)
            => e.tmdbId = w.req.id /\ e.contentType = w.req.mediaType

\* the rows of the handler's list that hold the item of its add for its user
Present(h) ==
    {e \in tables[hs[h].list] :
        /\ OwnerClerk(e) = {hs[h].clerk}
        /\ e.tmdbId = hs[h].body.tmdbId
        /\ e.contentType = hs[h].body.contentType}

\* C24 (list uniqueness): each list holds at most one row per (userId,
\* tmdbId, contentType); an add whose existence check runs while the item
\* is in the list is answered 409 and changes no table.
ListUniqueness ==
    /\ [](\A l \in Lists : \A e1, e2 \in tables[l] :
            (/\ e1.userId = e2.userId
             /\ e1.tmdbId = e2.tmdbId
             /\ e1.contentType = e2.contentType) => e1 = e2)
    /\ [][\A h \in ListProcs :
            (/\ hs[h].op = "add"
             /\ hs[h].pc = "query" /\ hs'[h].pc # "query"
             /\ Present(h) # {})
            => /\ hs'[h].pc = "done"
               /\ hs'[h].status = CONFLICT
               /\ tables' = tables]_vars

ListUniqueness_witness ==
    \E h \in ListProcs :
        /\ hs[h].pc = "done" /\ hs[h].op = "add"
        /\ hs[h].status = CONFLICT
        /\ Cardinality(Present(h)) = 1
        /\ \A g \in ListProcs \ {h} : hs[g].pc = "idle"

\* findOrCreateUser has returned or thrown
UserResolved(h) == hs[h].pc \in {"query", "create", "delete", "done"}

\* C25 (findOrCreateUser is idempotent): in a sequential run there is one
\* row per Clerk id at most, the create sent by a call that found no row
\* stores the row and the call returns it, and a call that finds the row
\* returns it, asks the identity provider nothing and writes nothing.
FindOrCreateIdempotent ==
    /\ [](\A u1, u2 \in users : u1.clerkId = u2.clerkId => u1 = u2)
    /\ [][(hs[ListHandler].pc = "user_create" /\ hs'[ListHandler].pc # "user_create")
            => /\ hs'[ListHandler].pc = "query"
               /\ \E u \in users' \ users :
                    /\ u.clerkId = hs[ListHandler].clerk
                    /\ u.id = hs'[ListHandler].user]_vars
    /\ [][(/\ hs[ListHandler].pc = "user_find"
            /\ \E u \in users : u.clerkId = hs[ListHandler].clerk)
            => /\ hs'[ListHandler].pc = "query"
               /\ users' = users
               /\ \E u \in users :
                    /\ u.clerkId = hs[ListHandler].clerk
                    /\ u.id = hs'[ListHandler].user]_vars

\* C26 (concurrent first requests): two findOrCreateUser calls for the same
\* Clerk id that both found no row and both asked the identity provider
\* both return the same user row.
ConcurrentFirstRequests ==
    \A h1, h2 \in ListProcs :
        (/\ h1 # h2
         /\ hs[h1].clerk = hs[h2].clerk
         /\ hs[h1].email # "" /\ hs[h2].email # ""
         /\ UserResolved(h1) /\ UserResolved(h2))
        => /\ hs[h1].user # 0
           /\ hs[h1].user = hs[h2].user

\* C27 (requireAuth gate): behind requireAuth the controller runs only for
\* a request whose header carried a token that Clerk verified, and sees
\* the token subject as req.auth.userId; a request without the header,
\* without a token part, or whose token failed verification is answered
\* 401 and next is never called for it.
RequireAuthGate ==
    \A a \in AuthProcs :
        mw[a].kind = "requireAuth" =>
            /\ (mw[a].nexts > 0 \/ mw[a].ran) =>
                  /\ mw[a].verified
                  /\ Token(mw[a].header) \in ValidTokens
                  /\ mw[a].auth.userId = Sub(Token(mw[a].header))
                  /\ mw[a].status = 0
            /\ mw[a].ran => mw[a].seen.userId = Sub(Token(mw[a].header))
            /\ (mw[a].header = <<>> \/ Token(mw[a].header) = "") =>
                  mw[a].pc = "done" /\ mw[a].status = UNAUTHORIZED
            /\ (mw[a].pc \in {"next", "done"} /\ ~mw[a].verified) =>
                  /\ mw[a].pc = "done" /\ mw[a].status = UNAUTHORIZED
                  /\ mw[a].nexts = 0 /\ ~mw[a].ran

RequireAuthGate_witness ==
    \E a, b \in AuthProcs :
        /\ mw[a].kind = "requireAuth" /\ mw[a].pc = "done"
        /\ mw[a].ran /\ mw[a].seen.userId = "u2"
        /\ mw[b].kind = "requireAuth" /\ mw[b].pc = "done"
        /\ mw[b].token = "t1" /\ mw[b].status = UNAUTHORIZED /\ mw[b].nexts = 0

\* C28 (optionalAuth never rejects): optionalAuth sends no response, has
\* called next exactly once when it is through, never more, and req.auth is
\* set if and only if the token was verified.
OptionalAuthNeverRejects ==
    \A a \in AuthProcs :
        mw[a].kind = "optionalAuth" =>
            /\ mw[a].status = 0
            /\ mw[a].nexts <= 1
            /\ mw[a].pc \in {"next", "done"} =>
                  /\ mw[a].nexts = 1
                  /\ (mw[a].auth # NoAuthInfo) <=> mw[a].verified
            /\ mw[a].pc = "verify" => mw[a].nexts = 0 /\ mw[a].auth = NoAuthInfo
            /\ mw[a].ran => mw[a].seen = mw[a].auth

OptionalAuthNeverRejects_witness ==
    \E a, b \in AuthProcs :
        /\ mw[a].kind = "optionalAuth" /\ mw[a].pc = "done"
        /\ mw[a].ran /\ mw[a].token = "bad" /\ mw[a].seen = NoAuthInfo
        /\ mw[b].kind = "optionalAuth" /\ mw[b].pc = "done"
        /\ mw[b].ran /\ mw[b].verified /\ mw[b].seen.userId = "u1"

====
